---- MODULE Spec2Model ----
(***************************************************************************)
(* Model of perp_ratio_calculator.py: the exposure aggregation             *)
(* (PerpRatioCalculator.calculate_long_short_ratio), the exchange adapter  *)
(* operations (fetch_positions, fetch_account_balance), the Telegram       *)
(* notifier (send_telegram_message), one pass of run_both_exchanges and    *)
(* the per-symbol breakdown of run and format_telegram_message.            *)
(*                                                                         *)
(* Conventions.                                                            *)
(*  - A Python value that may be None is a sequence of length at most one: *)
(*    <<>> is None and <<v>> is the value v.                               *)
(*  - Currency amounts are integers.  The BTC weight 0.5 is the fraction   *)
(*    1 / WeightDen, so the two effective totals are kept in units of      *)
(*    1 / WeightDen (halves): effective_long_total = 1000 halves is 500.   *)
(*  - The ratio is an exact fraction in lowest terms, or the infinite      *)
(*    sentinel float('inf').                                               *)
(*  - A Python dict is a record [keys, val]: keys is the insertion order   *)
(*    and val the mapping.                                                 *)
(***************************************************************************)
EXTENDS Integers, Sequences, FiniteSets, TLC

VARIABLES
    exchange_name,   \* self.exchange_name of the calculator under study
    positions,       \* the position list passed to calculate_long_short_ratio
    results,         \* <<>> before the call, then the summaries in call order
    tg_pc,           \* position inside send_telegram_message
    tg_attempts,     \* the responses of the requests.post calls made so far
    tg_slept,        \* the arguments of the time.sleep calls made so far
    adapter_call,    \* the last adapter operation: its input and its outcome
    run_i,           \* run_both_exchanges: index of the next exchange
    run_log,         \* run_both_exchanges: what happened for each exchange
    report           \* the per-symbol breakdowns rendered from the summary

vars == <<exchange_name, positions, results, tg_pc, tg_attempts, tg_slept,
          adapter_call, run_i, run_log, report>>

----------------------------------------------------------------------------
(* Bounds of the model *)

MaxPositions == 2

\* the largest retry_after the Telegram API is taken to answer
MaxRetryAfter == 3

\* the longest list of raw positions and of asset balances an exchange answers
MaxRawPositions == 2

MaxAssets == 2

\* the number of calls of calculate_long_short_ratio on one list
MaxCalls == 2

----------------------------------------------------------------------------
(* Python helpers *)

None == <<>>

Some(v) == <<v>>

IsNone(o) == o = <<>>

Abs(x) == IF x < 0 THEN -x ELSE x

\* str.startswith
StartsWith(s, prefix) ==
    /\ Len(s) >= Len(prefix)
    /\ SubSeq(s, 1, Len(prefix)) = prefix

\* x or 0, for an optional number
OrZero(o) == IF IsNone(o) THEN 0 ELSE o[1]

EmptyDict == [keys |-> <<>>, val |-> <<>>]

RECURSIVE HasKeyFrom(_, _, _)
HasKeyFrom(keys, k, i) ==
    IF i > Len(keys) THEN FALSE
    ELSE IF keys[i] = k THEN TRUE
    ELSE HasKeyFrom(keys, k, i + 1)

HasKey(d, k) == HasKeyFrom(d.keys, k, 1)

RECURSIVE IndexOfFrom(_, _, _)
IndexOfFrom(keys, k, i) ==
    IF keys[i] = k THEN i ELSE IndexOfFrom(keys, k, i + 1)

\* d[k]
DictGet(d, k) == d.val[IndexOfFrom(d.keys, k, 1)]

\* d[k] = v for a new key k
DictInsert(d, k, v) == [keys |-> Append(d.keys, k), val |-> Append(d.val, v)]

\* mutant of DictAdd: d[k] = v, the accumulator is overwritten
DictAddOverwrite(d, k, v) ==
    [keys |-> d.keys,
     val  |-> [j \in 1..Len(d.val) |->
                  IF d.keys[j] = k THEN v ELSE d.val[j]]]

\* d[k] += v for a key k of d
DictAdd(d, k, v) ==
    [keys |-> d.keys,
     val  |-> [j \in 1..Len(d.val) |->
                  IF d.keys[j] = k THEN d.val[j] + v ELSE d.val[j]]]

RECURSIVE SumSeqFrom(_, _)
SumSeqFrom(s, i) == IF i > Len(s) THEN 0 ELSE s[i] + SumSeqFrom(s, i + 1)

\* sum(d.values())
SumValues(d) == SumSeqFrom(d.val, 1)

----------------------------------------------------------------------------
(* PerpRatioCalculator *)

Exchanges == <<"binance", "bybit", "bitget">>

ExchangeNames == {Exchanges[k] : k \in 1..Len(Exchanges)}

excluded_tickers ==
    {"PAXGUSDT", "BTCDOMUSDT", "PAXG/USDT", "BTCDOM/USDT",
     "PAXG/USDT:USDT", "BTCDOM/USDT:USDT"}

\* mutant of IsExcluded: only the plain naming variant is excluded
IsExcludedPlainOnly(symbol) == symbol \in {"PAXGUSDT", "BTCDOMUSDT"}

IsExcluded(symbol) == symbol \in excluded_tickers

\* the denominator of the BTC weight: 0.5 = 1 / WeightDen
WeightDen == 2

\* mutant of Weight: every symbol has weight 1.0
WeightUnweighted(symbol) == WeightDen

\* weight = 0.5 if symbol.startswith('BTC') else 1.0, in units of 1 / WeightDen
Weight(symbol) == IF StartsWith(symbol, "BTC") THEN 1 ELSE WeightDen

\* mutant of NotionalValue: the notional is used with the sign it came with
NotionalValueNoAbs(ex, side, notional, unrealized_pnl) ==
    IF ex = "bybit"
    THEN IF side = "long" THEN Some(notional + unrealized_pnl)
         ELSE IF side = "short" THEN Some(-(notional - unrealized_pnl))
         ELSE None
    ELSE IF side = "long" THEN Some(notional)
         ELSE IF side = "short" THEN Some(-notional)
         ELSE None

\* mutant of NotionalValue: no exchange folds the PnL into the notional
NotionalValueNoPnl(ex, side, notional, unrealized_pnl) ==
    IF side = "long" THEN Some(Abs(notional))
    ELSE IF side = "short" THEN Some(-Abs(notional))
    ELSE None

\* The signed notional of one position, None when the side is neither long
\* nor short (the position is skipped).
NotionalValue(ex, side, notional, unrealized_pnl) ==
    IF ex = "bybit"
    THEN IF side = "long" THEN Some(Abs(notional) + unrealized_pnl)
         ELSE IF side = "short" THEN Some(-(Abs(notional) - unrealized_pnl))
         ELSE None
    ELSE IF side = "long" THEN Some(Abs(notional))
         ELSE IF side = "short" THEN Some(-Abs(notional))
         ELSE None

\* One iteration of the loop over positions: acc holds the two dicts.
AccumulatePosition(ex, acc, pos) ==
    IF IsExcluded(pos.symbol) THEN acc
    ELSE IF IsNone(pos.notional) THEN acc
    ELSE LET unrealized_pnl == OrZero(pos.unrealizedPnl)
             notional_value == NotionalValue(ex, pos.side, pos.notional[1],
                                             unrealized_pnl)
         IN  IF IsNone(notional_value) THEN acc
             ELSE LET sp == IF HasKey(acc.symbol_positions, pos.symbol)
                            THEN acc.symbol_positions
                            ELSE DictInsert(acc.symbol_positions, pos.symbol, 0)
                      pn == IF HasKey(acc.symbol_positions, pos.symbol)
                            THEN acc.symbol_pnl
                            ELSE DictInsert(acc.symbol_pnl, pos.symbol, 0)
                  IN  [symbol_positions |->
                           DictAdd(sp, pos.symbol, notional_value[1]),
                       symbol_pnl |-> DictAdd(pn, pos.symbol, unrealized_pnl)]

RECURSIVE AccumulateFrom(_, _, _, _)
AccumulateFrom(ex, poss, i, acc) ==
    IF i > Len(poss) THEN acc
    ELSE AccumulateFrom(ex, poss, i + 1, AccumulatePosition(ex, acc, poss[i]))

\* for symbol, net_notional in symbol_positions.items(): raw totals
RECURSIVE RawLongFrom(_, _)
RawLongFrom(d, i) ==
    IF i > Len(d.keys) THEN 0
    ELSE (IF d.val[i] > 0 THEN d.val[i] ELSE 0) + RawLongFrom(d, i + 1)

RECURSIVE RawShortFrom(_, _)
RawShortFrom(d, i) ==
    IF i > Len(d.keys) THEN 0
    ELSE (IF d.val[i] > 0 THEN 0
          ELSE IF d.val[i] < 0 THEN Abs(d.val[i]) ELSE 0)
         + RawShortFrom(d, i + 1)

\* for symbol, net_notional in symbol_positions.items(): effective totals
RECURSIVE EffectiveLongFrom(_, _)
EffectiveLongFrom(d, i) ==
    IF i > Len(d.keys) THEN 0
    ELSE (IF d.val[i] > 0 THEN d.val[i] * Weight(d.keys[i]) ELSE 0)
         + EffectiveLongFrom(d, i + 1)

RECURSIVE EffectiveShortFrom(_, _)
EffectiveShortFrom(d, i) ==
    IF i > Len(d.keys) THEN 0
    ELSE (IF d.val[i] > 0 THEN 0
          ELSE IF d.val[i] < 0 THEN Abs(d.val[i]) * Weight(d.keys[i]) ELSE 0)
         + EffectiveShortFrom(d, i + 1)

RECURSIVE Gcd(_, _)
Gcd(a, b) == IF b = 0 THEN a ELSE Gcd(b, a % b)

\* the quotient a / b of two non-negative amounts, b > 0, in lowest terms
Quotient(a, b) ==
    [inf |-> FALSE, num |-> a \div Gcd(a, b), den |-> b \div Gcd(a, b)]

\* float('inf')
Infinite == [inf |-> TRUE, num |-> 1, den |-> 0]

Zero == [inf |-> FALSE, num |-> 0, den |-> 1]

\* mutant of Ratio: no short exposure always gives the infinite sentinel
RatioInfiniteWithoutShort(effective_long_total, effective_short_total) ==
    IF effective_short_total > 0
    THEN Quotient(effective_long_total, effective_short_total)
    ELSE Infinite

Ratio(effective_long_total, effective_short_total) ==
    IF effective_short_total > 0
    THEN Quotient(effective_long_total, effective_short_total)
    ELSE IF effective_long_total > 0 THEN Infinite ELSE Zero

calculate_long_short_ratio(ex, poss) ==
    LET acc == AccumulateFrom(ex, poss, 1,
                   [symbol_positions |-> EmptyDict, symbol_pnl |-> EmptyDict])
        effective_long_total  == EffectiveLongFrom(acc.symbol_positions, 1)
        effective_short_total == EffectiveShortFrom(acc.symbol_positions, 1)
    IN  [raw_long_total        |-> RawLongFrom(acc.symbol_positions, 1),
         raw_short_total       |-> RawShortFrom(acc.symbol_positions, 1),
         effective_long_total  |-> effective_long_total,
         effective_short_total |-> effective_short_total,
         long_short_ratio      |-> Ratio(effective_long_total,
                                         effective_short_total),
         symbol_positions      |-> acc.symbol_positions,
         symbol_pnl            |-> acc.symbol_pnl,
         overall_pnl           |-> SumValues(acc.symbol_pnl)]

----------------------------------------------------------------------------
(* The adapter operations: fetch_positions and fetch_account_balance       *)

\* The outcome of a piece of Python code: it returns a value or it raises.
Return(v) == [raised |-> FALSE, value |-> v]

Raise == [raised |-> TRUE, value |-> <<>>]

\* pos['contracts'] > 0 for every position of the list, in order; comparing
\* None with 0 raises TypeError
RECURSIVE FilterContracts(_, _)
FilterContracts(raw, i) ==
    IF i > Len(raw) THEN Return(<<>>)
    ELSE IF raw[i].contracts = None THEN Raise
    ELSE LET rest == FilterContracts(raw, i + 1)
         IN  IF rest.raised THEN Raise
             ELSE IF raw[i].contracts[1] > 0
                  THEN Return(<<raw[i]>> \o rest.value)
                  ELSE rest

\* the try block of fetch_positions; call is what exchange.fetch_positions()
\* does: it raises or answers a list
FetchPositionsBody(call) ==
    IF call.raised THEN Raise ELSE FilterContracts(call.value, 1)

\* mutant of fetch_positions: no except clause
fetch_positions_unguarded(call) == FetchPositionsBody(call)

fetch_positions(call) ==
    IF FetchPositionsBody(call).raised THEN Return(<<>>)
    ELSE FetchPositionsBody(call)

\* A field of a balance payload: absent (the key is missing), junk (a text
\* that is no number) or a number.
Absent == [t |-> "absent", v |-> 0]

Junk == [t |-> "junk", v |-> 0]

Num(v) == [t |-> "num", v |-> v]

ZeroBalance ==
    [total_wallet_balance |-> 0, total_unrealized_pnl |-> 0,
     total_margin_balance |-> 0]

\* float(x) if x else 0, for x = d.get(key, 0)
FloatIfTruthy(x) ==
    IF x.t = "absent" THEN Return(0)
    ELSE IF x.t = "junk" THEN Raise
    ELSE Return(x.v)

\* float(d.get(key, default))
FloatOrDefault(x, default) ==
    IF x.t = "absent" THEN Return(default)
    ELSE IF x.t = "junk" THEN Raise
    ELSE Return(x.v)

\* the dict literal of the binance and bybit branches: the three
\* conversions in the order of the keys, the first to raise ends it
BalanceOf(wallet, pnl, margin) ==
    IF wallet.raised \/ pnl.raised \/ margin.raised THEN Raise
    ELSE Return([total_wallet_balance |-> wallet.value,
                 total_unrealized_pnl |-> pnl.value,
                 total_margin_balance |-> margin.value])

\* The shapes of balance['info'].  flat: a dict of totals (binance); unified:
\* a dict with result.list, a list of account dicts (bybit); assets: a list
\* of per-coin dicts (bitget); noinfo: the key is missing; scalar: a text.
BinanceBranch(info) ==
    IF info.kind = "flat"
    THEN BalanceOf(FloatIfTruthy(info.totalWalletBalance),
                   FloatIfTruthy(info.totalUnrealizedProfit),
                   FloatIfTruthy(info.totalMarginBalance))
    ELSE IF info.kind \in {"noinfo", "unified"}
    THEN BalanceOf(FloatIfTruthy(Absent), FloatIfTruthy(Absent),
                   FloatIfTruthy(Absent))
    ELSE Raise

BybitBranch(info) ==
    IF info.kind = "unified"
    THEN IF info.list = <<>> THEN Raise
         ELSE BalanceOf(FloatIfTruthy(info.list[1].totalWalletBalance),
                        FloatIfTruthy(info.list[1].totalPerpUPL),
                        FloatIfTruthy(info.list[1].totalEquity))
    ELSE IF info.kind \in {"noinfo", "flat"}
    THEN BalanceOf(FloatIfTruthy(Absent), FloatIfTruthy(Absent),
                   FloatIfTruthy(Absent))
    ELSE Raise

\* the loop over balance_info looking for the USDT entry; None when the
\* loop ends without a return
RECURSIVE BitgetLoop(_, _)
BitgetLoop(assets, i) ==
    IF i > Len(assets) THEN Return(None)
    ELSE IF ~assets[i].isdict THEN Raise
    ELSE IF assets[i].marginCoin # "USDT" THEN BitgetLoop(assets, i + 1)
    ELSE LET available == FloatOrDefault(assets[i].available, 0)
             locked    == FloatOrDefault(assets[i].locked, 0)
         IN  IF available.raised \/ locked.raised THEN Raise
             ELSE LET total_wallet_balance == available.value + locked.value
                      pnl    == FloatOrDefault(assets[i].unrealizedPL, 0)
                      equity == FloatOrDefault(assets[i].accountEquity,
                                               total_wallet_balance)
                  IN  IF pnl.raised \/ equity.raised THEN Raise
                      ELSE Return(Some(
                              [total_wallet_balance |-> total_wallet_balance,
                               total_unrealized_pnl |-> pnl.value,
                               total_margin_balance |-> equity.value]))

\* the bitget branch with its inner try / except: pass
BitgetBranch(info) ==
    IF info.kind = "assets" /\ info.list # <<>>
    THEN LET found == BitgetLoop(info.list, 1)
         IN  IF found.raised \/ found.value = None THEN Return(ZeroBalance)
             ELSE Return(found.value[1])
    ELSE Return(ZeroBalance)

\* the try block of fetch_account_balance; call is what
\* exchange.fetch_balance() does: it raises or answers a balance
FetchBalanceBody(ex, call) ==
    IF call.raised THEN Raise
    ELSE IF ex = "binance" THEN BinanceBranch(call.value)
    ELSE IF ex = "bybit" THEN BybitBranch(call.value)
    ELSE IF ex = "bitget" THEN BitgetBranch(call.value)
    ELSE Return(ZeroBalance)

\* mutant of fetch_account_balance: no except clause
fetch_account_balance_unguarded(ex, call) == FetchBalanceBody(ex, call)

fetch_account_balance(ex, call) ==
    IF FetchBalanceBody(ex, call).raised THEN Return(ZeroBalance)
    ELSE FetchBalanceBody(ex, call)

----------------------------------------------------------------------------
(* send_telegram_message *)

\* HTTP statuses from which response.raise_for_status() raises HTTPError
HttpErrorFrom == 400

RateLimitCode == 429

\* What requests.post can produce.  raised: the call itself raised a
\* RequestException (timeout, connection).  Otherwise an HTTP response with
\* a status and a body; json is FALSE when the body is no JSON document
\* (response.json() raises), else the body holds ok, error_code and
\* parameters.retry_after (None when absent).  The Telegram Bot API answers
\* an error with the HTTP status equal to the error_code of the body; the
\* code also provides for an error body under a successful status.
ErrorBodies ==
    [json : {TRUE}, ok : {FALSE}, error_code : {Some(400), Some(RateLimitCode)},
     retry_after : {None} \cup {Some(k) : k \in (-1)..MaxRetryAfter}]

OkBody == [json |-> TRUE, ok |-> TRUE, error_code |-> None, retry_after |-> None]

NoJsonBody ==
    [json |-> FALSE, ok |-> FALSE, error_code |-> None, retry_after |-> None]

PostRaised == [raised |-> TRUE, status |-> 0, body |-> NoJsonBody]

Responses ==
    {PostRaised}
    \cup [raised : {FALSE}, status : {200},
          body : {OkBody, NoJsonBody} \cup ErrorBodies]
    \cup {[raised |-> FALSE, status |-> b.error_code[1], body |-> b] :
             b \in ErrorBodies}
    \cup {[raised |-> FALSE, status |-> 502, body |-> NoJsonBody]}

\* The processing of the first response, up to the decision to retry:
\* Some(retry_after) when the code goes on to sleep and post again, None
\* when it logs and returns (every exception is caught and logged).
RetryDelay(response) ==
    IF response.raised THEN None
    ELSE IF response.status >= HttpErrorFrom THEN None
    ELSE IF ~response.body.json THEN None
    ELSE IF response.body.ok THEN None
    ELSE IF response.body.error_code # Some(RateLimitCode) THEN None
    ELSE IF response.body.retry_after # None /\ response.body.retry_after[1] > 0
         THEN response.body.retry_after
         ELSE None

\* the first requests.post and the handling of its response
TgFirstAttempt ==
    /\ tg_pc = "start"
    /\ \E response \in Responses :
          /\ tg_attempts' = Append(tg_attempts, response)
          /\ tg_pc' = IF RetryDelay(response) = None THEN "done" ELSE "sleep"
    /\ UNCHANGED <<exchange_name, positions, results, tg_slept, adapter_call,
                   run_i, run_log, report>>

\* time.sleep(retry_after)
TgSleep ==
    /\ tg_pc = "sleep"
    /\ tg_slept' = Append(tg_slept, RetryDelay(tg_attempts[1])[1])
    /\ tg_pc' = "retry"
    /\ UNCHANGED <<exchange_name, positions, results, tg_attempts,
                   adapter_call, run_i, run_log, report>>

\* the second requests.post; whatever it answers is logged and the function
\* returns
TgRetry ==
    /\ tg_pc = "retry"
    /\ \E response \in Responses :
          tg_attempts' = Append(tg_attempts, response)
    /\ tg_pc' = "done"
    /\ UNCHANGED <<exchange_name, positions, results, tg_slept, adapter_call,
                   run_i, run_log, report>>

----------------------------------------------------------------------------
(* run_both_exchanges *)

\* the seconds slept between two exchanges
InterExchangeDelay == 5

\* The environment of one iteration of the loop: fault is the place where an
\* unexpected error is raised ("none", or the constructor, the body of run
\* after the fetches, format_telegram_message); positions_call and
\* balance_call are what the exchange does; first and second are what the
\* Telegram API answers to the first and to a second post.

\* PerpRatioCalculator(exchange): _initialize_exchange raises ValueError for
\* an unsupported name, and the ccxt constructor may raise
Construct(ex, env) ==
    IF ex \notin ExchangeNames \/ env.fault = "construct" THEN Raise
    ELSE Return(ex)

\* mutant of run: no early return for an empty position list
run_without_early_return(ex, env) ==
    LET fetched         == fetch_positions(env.positions_call).value
        account_balance == fetch_account_balance(ex, env.balance_call).value
    IN  IF env.fault = "run" THEN Raise @@ [fetched |-> Some(fetched)]
        ELSE Return(Some(calculate_long_short_ratio(ex, fetched)
                         @@ [account_balance |-> account_balance]))
             @@ [fetched |-> Some(fetched)]

\* calculator.run(): None for an empty position list, else the summary with
\* the account balance added.  fetched records what fetch_positions
\* returned.
run(ex, env) ==
    LET fetched         == fetch_positions(env.positions_call).value
        account_balance == fetch_account_balance(ex, env.balance_call).value
    IN  IF fetched = <<>> THEN Return(None) @@ [fetched |-> Some(fetched)]
        ELSE IF env.fault = "run" THEN Raise @@ [fetched |-> Some(fetched)]
        ELSE Return(Some(calculate_long_short_ratio(ex, fetched)
                         @@ [account_balance |-> account_balance]))
             @@ [fetched |-> Some(fetched)]

\* calculator.format_telegram_message(results): the message is kept as the
\* exchange and the summary it renders
format_telegram_message(ex, res, env) ==
    IF env.fault = "format" THEN Raise
    ELSE Return([kind |-> "report", exchange |-> ex, results |-> Some(res)])

\* error_message of the except clause
ErrorMessage(ex) == [kind |-> "error", exchange |-> ex, results |-> None]

\* send_telegram_message(message) as a whole: the message and the responses
\* of the posts it made; it never raises
send_telegram_message(message, env) ==
    [message   |-> message,
     responses |-> IF RetryDelay(env.first) = None THEN <<env.first>>
                   ELSE <<env.first, env.second>>]

\* The try block of the loop body.  error is the place of the exception
\* that ended it, sent the calls of send_telegram_message made.
TryBlock(ex, env) ==
    LET calculator == Construct(ex, env)
    IN  IF calculator.raised
        THEN [raised |-> TRUE, error |-> "construct", fetched |-> None,
              sent |-> <<>>]
        ELSE LET res == run(ex, env)
             IN  IF res.raised
                 THEN [raised |-> TRUE, error |-> "run",
                       fetched |-> res.fetched, sent |-> <<>>]
                 ELSE IF res.value = None
                 THEN [raised |-> FALSE, error |-> "none",
                       fetched |-> res.fetched, sent |-> <<>>]
                 ELSE LET msg == format_telegram_message(ex, res.value[1], env)
                      IN  IF msg.raised
                          THEN [raised |-> TRUE, error |-> "format",
                                fetched |-> res.fetched, sent |-> <<>>]
                          ELSE [raised |-> FALSE, error |-> "none",
                                fetched |-> res.fetched,
                                sent |-> <<send_telegram_message(msg.value,
                                                                 env)>>]

\* mutant of RunIteration: no except clause, the error leaves the loop
RunIterationUnguarded(ex, env) == TryBlock(ex, env)

\* the loop body: the try block and its except clause
RunIteration(ex, env) ==
    IF TryBlock(ex, env).raised
    THEN [TryBlock(ex, env) EXCEPT
             !.raised = FALSE,
             !.sent = Append(@, send_telegram_message(ErrorMessage(ex), env))]
    ELSE TryBlock(ex, env)

----------------------------------------------------------------------------
(* Inputs of calculate_long_short_ratio *)

Symbols == {"ETH/USDT:USDT", "BTCUSDT", "PAXGUSDT", "BTCDOM/USDT:USDT"}

\* positions as ccxt reports them: side long or short, notional of either
\* sign, unrealizedPnl possibly None
RegularPositions ==
    [symbol : Symbols, side : {"long", "short"},
     notional : {Some(-40), Some(100), Some(1000)},
     unrealizedPnl : {None, Some(-150)}]

\* positions with a None notional or with a side that is neither long nor short
IrregularPositions ==
    [symbol : {"ETH/USDT:USDT", "BTCUSDT"}, side : {"long"},
     notional : {None}, unrealizedPnl : {Some(-150)}]
    \cup
    [symbol : {"ETH/USDT:USDT", "BTCUSDT"}, side : {"None"},
     notional : {Some(100)}, unrealizedPnl : {Some(-150)}]

PositionInputs == RegularPositions \cup IrregularPositions

PositionLists ==
    UNION {[1..n -> PositionInputs] : n \in 0..MaxPositions}

----------------------------------------------------------------------------
(* Inputs of the adapter operations *)

\* what exchange.fetch_positions() answers: positions with a contract size
\* that is None, zero or positive
RawPositions ==
    [symbol : {"ETH/USDT:USDT", "BTCUSDT"}, side : {"long"},
     notional : {Some(100)}, unrealizedPnl : {None},
     contracts : {None, Some(0), Some(2)}]

PositionCalls ==
    {Raise}
    \cup {Return(l) : l \in UNION {[1..n -> RawPositions] :
                                      n \in 0..MaxRawPositions}}

FieldValues == {Absent, Junk, Num(0), Num(7)}

FlatInfos ==
    [kind : {"flat"}, totalWalletBalance : FieldValues,
     totalUnrealizedProfit : FieldValues, totalMarginBalance : FieldValues]

UnifiedInfos ==
    {[kind |-> "unified", list |-> <<>>]}
    \cup {[kind |-> "unified", list |-> <<a>>] :
             a \in [totalWalletBalance : FieldValues,
                    totalPerpUPL : FieldValues, totalEquity : FieldValues]}

NotADict ==
    [isdict |-> FALSE, marginCoin |-> "", available |-> Absent,
     locked |-> Absent, unrealizedPL |-> Absent, accountEquity |-> Absent]

AssetEntries ==
    {NotADict}
    \cup [isdict : {TRUE}, marginCoin : {"USDT", "USDC"},
          available : {Junk, Num(7)}, locked : {Absent, Num(1)},
          unrealizedPL : {Absent, Num(-2)}, accountEquity : {Absent, Num(9)}]

AssetInfos ==
    {[kind |-> "assets", list |-> l] :
        l \in UNION {[1..n -> AssetEntries] : n \in 0..MaxAssets}}

BalanceCalls ==
    {Raise}
    \cup {Return(info) :
             info \in {[kind |-> "noinfo"], [kind |-> "scalar"]}
                      \cup FlatInfos \cup UnifiedInfos \cup AssetInfos}

----------------------------------------------------------------------------
(* Inputs of run_both_exchanges *)

OpenPosition ==
    [symbol |-> "ETH/USDT:USDT", side |-> "long", notional |-> Some(100),
     unrealizedPnl |-> Some(-150), contracts |-> Some(2)]

ClosedPosition ==
    [symbol |-> "BTCUSDT", side |-> "long", notional |-> Some(100),
     unrealizedPnl |-> None, contracts |-> Some(0)]

OkResponse == [raised |-> FALSE, status |-> 200, body |-> OkBody]

RateLimitBody ==
    [json |-> TRUE, ok |-> FALSE, error_code |-> Some(RateLimitCode),
     retry_after |-> Some(1)]

RunEnvironments ==
    [fault : {"none", "construct", "run", "format"},
     positions_call : {Raise, Return(<<>>), Return(<<ClosedPosition>>),
                       Return(<<ClosedPosition, OpenPosition>>)},
     balance_call : {Raise,
                     Return([kind |-> "flat", totalWalletBalance |-> Num(7),
                             totalUnrealizedProfit |-> Num(0),
                             totalMarginBalance |-> Num(7)])},
     first : {OkResponse,
              [raised |-> FALSE, status |-> 200, body |-> RateLimitBody],
              [raised |-> FALSE, status |-> RateLimitCode,
               body |-> RateLimitBody]},
     second : {OkResponse, PostRaised}]

\* the variables of the other operations, at rest
NotifierIdle == tg_pc = "idle" /\ tg_attempts = <<>> /\ tg_slept = <<>>

AdapterIdle == adapter_call = None

RunIdle == run_i = 0 /\ run_log = <<>>

CalcIdle == exchange_name = "binance" /\ positions = <<>> /\ results = None

ReportIdle == report = [console |-> None, telegram |-> None]

----------------------------------------------------------------------------
(* Specification of the aggregation: a calculator of any configured        *)
(* exchange is handed any position list.                                   *)

Init ==
    /\ exchange_name \in ExchangeNames
    /\ positions \in PositionLists
    /\ results = None
    /\ NotifierIdle /\ AdapterIdle /\ RunIdle /\ ReportIdle

\* mutant of Calculate: the call consumes its argument (positions.pop())
CalculateConsumingList ==
    /\ results = None
    /\ results' = Some(calculate_long_short_ratio(exchange_name, positions))
    /\ positions' = <<>>
    /\ UNCHANGED <<exchange_name, tg_pc, tg_attempts, tg_slept,
                   adapter_call, run_i, run_log, report>>

Calculate ==
    /\ results = None
    /\ results' = Some(calculate_long_short_ratio(exchange_name, positions))
    /\ UNCHANGED <<exchange_name, positions, tg_pc, tg_attempts, tg_slept,
                   adapter_call, run_i, run_log, report>>

Next == Calculate

Spec == Init /\ [][Next]_vars

\* A further call of calculate_long_short_ratio of the same calculator on
\* the same list object: results collects the summaries in call order.  The
\* function assigns to its locals only, never to self or to the list.
CalculateAgain ==
    /\ results # None
    /\ Len(results) < MaxCalls
    /\ results' = Append(results,
                         calculate_long_short_ratio(exchange_name, positions))
    /\ UNCHANGED <<exchange_name, positions, tg_pc, tg_attempts, tg_slept,
                   adapter_call, run_i, run_log, report>>

NextRepeated == Calculate \/ CalculateAgain

SpecRepeated == Init /\ [][NextRepeated]_vars

----------------------------------------------------------------------------
(* The per-symbol breakdown that run prints and format_telegram_message    *)
(* appends to the chat message.  A rendering is the sequence of its        *)
(* sections in output order; a section is its heading line and its rows.   *)
(* The separating blank lines, the column padding and the colours are left *)
(* out, and an amount is the number that the row formats.                  *)

\* str.find from index i: where sub first occurs in s, 0 when it does not
RECURSIVE FindFrom(_, _, _)
FindFrom(s, sub, i) ==
    IF i + Len(sub) - 1 > Len(s) THEN 0
    ELSE IF SubSeq(s, i, i + Len(sub) - 1) = sub THEN i
    ELSE FindFrom(s, sub, i + 1)

\* symbol.split(sep)[0]
SplitHead(symbol, sep) == SubSeq(symbol, 1, FindFrom(symbol, sep, 1) - 1)

clean_symbol(symbol) ==
    IF FindFrom(symbol, ":USDT", 1) > 0 THEN SplitHead(symbol, ":USDT")
    ELSE IF FindFrom(symbol, ":USDC", 1) > 0 THEN SplitHead(symbol, ":USDC")
    ELSE symbol

\* for symbol, net_notional in results['symbol_positions'].items(): the
\* tuple (symbol, net_notional, pnl) is appended to one of the two lists
RECURSIVE PartitionFrom(_, _, _)
PartitionFrom(res, i, lists) ==
    IF i > Len(res.symbol_positions.keys) THEN lists
    ELSE LET symbol       == res.symbol_positions.keys[i]
             net_notional == res.symbol_positions.val[i]
             pnl          == IF HasKey(res.symbol_pnl, symbol)
                             THEN DictGet(res.symbol_pnl, symbol)
                             ELSE 0
             entry        == <<symbol, net_notional, pnl>>
         IN  PartitionFrom(res, i + 1,
                 IF net_notional > 0
                 THEN [lists EXCEPT !.long_positions = Append(@, entry)]
                 ELSE [lists EXCEPT !.short_positions = Append(@, entry)])

\* key=lambda x: x[1] for the long list, key=lambda x: abs(x[1]) for the
\* short one
SortKey(x, magnitude) == IF magnitude THEN Abs(x[2]) ELSE x[2]

\* list.sort(key=..., reverse=True) is stable: entries of equal key keep the
\* order they had
RECURSIVE InsertDescending(_, _, _)
InsertDescending(sorted, x, magnitude) ==
    IF sorted = <<>> THEN <<x>>
    ELSE IF SortKey(Head(sorted), magnitude) >= SortKey(x, magnitude)
         THEN <<Head(sorted)>> \o InsertDescending(Tail(sorted), x, magnitude)
    ELSE <<x>> \o sorted

RECURSIVE SortDescendingFrom(_, _, _, _)
SortDescendingFrom(list, i, sorted, magnitude) ==
    IF i > Len(list) THEN sorted
    ELSE SortDescendingFrom(list, i + 1,
                            InsertDescending(sorted, list[i], magnitude),
                            magnitude)

\* long_positions and short_positions after the two sorts
Breakdown(res) ==
    LET lists == PartitionFrom(res, 1, [long_positions  |-> <<>>,
                                        short_positions |-> <<>>])
    IN  [long_positions  |->
             SortDescendingFrom(lists.long_positions, 1, <<>>, FALSE),
         short_positions |->
             SortDescendingFrom(lists.short_positions, 1, <<>>, TRUE)]

\* the rows run prints for one list
ConsoleRows(list, side) ==
    [k \in 1..Len(list) |->
        [symbol |-> clean_symbol(list[k][1]), side |-> side,
         amount |-> Abs(list[k][2]), pnl |-> list[k][3]]]

\* the breakdown run prints
run_breakdown(res) ==
    LET b == Breakdown(res)
    IN  (IF b.long_positions # <<>>
         THEN <<[heading |-> "LONG POSITIONS:",
                 rows    |-> ConsoleRows(b.long_positions, "LONG")]>>
         ELSE <<>>)
        \o
        (IF b.short_positions # <<>>
         THEN <<[heading |-> "SHORT POSITIONS:",
                 rows    |-> ConsoleRows(b.short_positions, "SHORT")]>>
         ELSE <<>>)

\* the rows of the chat message: notional for a long, abs(notional) for a
\* short
TelegramRows(list, short) ==
    [k \in 1..Len(list) |->
        [symbol |-> clean_symbol(list[k][1]),
         amount |-> IF short THEN Abs(list[k][2]) ELSE list[k][2],
         pnl    |-> list[k][3]]]

\* the breakdown at the end of the message of format_telegram_message
telegram_breakdown(res) ==
    LET b == Breakdown(res)
    IN  (IF b.long_positions # <<>>
         THEN <<[heading |-> "*Long Positions:*",
                 rows    |-> TelegramRows(b.long_positions, FALSE)]>>
         ELSE <<>>)
        \o
        (IF b.short_positions # <<>>
         THEN <<[heading |-> "*Short Positions:*",
                 rows    |-> TelegramRows(b.short_positions, TRUE)]>>
         ELSE <<>>)

\* run, past its early return for an empty position list, prints the
\* breakdown of the summary it computed
RunPrintBreakdown ==
    /\ results # None
    /\ positions # <<>>
    /\ report.console = None
    /\ report' = [report EXCEPT !.console = Some(run_breakdown(results[1]))]
    /\ UNCHANGED <<exchange_name, positions, results, tg_pc, tg_attempts,
                   tg_slept, adapter_call, run_i, run_log>>

\* format_telegram_message is handed the summary that run returned
FormatTelegramMessage ==
    /\ report.console # None
    /\ report.telegram = None
    /\ report' = [report EXCEPT
                      !.telegram = Some(telegram_breakdown(results[1]))]
    /\ UNCHANGED <<exchange_name, positions, results, tg_pc, tg_attempts,
                   tg_slept, adapter_call, run_i, run_log>>

NextReport == Calculate \/ RunPrintBreakdown \/ FormatTelegramMessage

SpecReport == Init /\ [][NextReport]_vars

----------------------------------------------------------------------------
(* The aggregation as section 4.2 of the specification states it, written  *)
(* without the dicts and loops of the code: the claims below compare the   *)
(* summary the code returns with these.                                    *)

Done == results # None

\* the naming variants the adapters emit for one base instrument
NamingVariants(base) ==
    {base \o "USDT", base \o "/USDT", base \o "/USDT:USDT"}

ExcludedNames == NamingVariants("PAXG") \cup NamingVariants("BTCDOM")

\* long -> +|notional|, short -> -|notional|; on bybit the PnL is folded in
SignedNotional(ex, p) ==
    LET n   == Abs(p.notional[1])
        pnl == IF p.unrealizedPnl = None THEN 0 ELSE p.unrealizedPnl[1]
    IN  IF p.side = "long"
        THEN (IF ex = "bybit" THEN n + pnl ELSE n)
        ELSE (IF ex = "bybit" THEN pnl - n ELSE -n)

PnlOf(p) == IF p.unrealizedPnl = None THEN 0 ELSE p.unrealizedPnl[1]

\* the positions the aggregation counts
Counted(p) ==
    /\ p.symbol \notin ExcludedNames
    /\ p.notional # None
    /\ p.side \in {"long", "short"}

RECURSIVE SetSum(_, _)
SetSum(f, S) ==
    IF S = {} THEN 0
    ELSE LET x == CHOOSE y \in S : TRUE IN f[x] + SetSum(f, S \ {x})

\* the indices of the counted positions of symbol s
CountedAt(poss, s) ==
    {k \in 1..Len(poss) : Counted(poss[k]) /\ poss[k].symbol = s}

NetOf(ex, poss, s) ==
    SetSum([k \in 1..Len(poss) |-> SignedNotional(ex, poss[k])],
           CountedAt(poss, s))

KeySet(d) == {d.keys[k] : k \in 1..Len(d.keys)}

UniqueKeys(d) == Cardinality(KeySet(d)) = Len(d.keys)

IsBtc(s) == Len(s) >= 3 /\ SubSeq(s, 1, 3) = "BTC"

----------------------------------------------------------------------------
(* Claims about calculate_long_short_ratio, checked under Spec *)

\* C1: the ratio is effective_long_total / effective_short_total when
\* effective_short_total > 0; otherwise it is the infinite sentinel when
\* effective_long_total > 0 and 0 when both totals are 0 - in particular
\* for the empty position list.
C1_RatioOfEffectiveTotals ==
    Done =>
      LET r == results[1]
          q == r.long_short_ratio
      IN  /\ r.effective_long_total >= 0 /\ r.effective_short_total >= 0
          /\ r.effective_short_total > 0 =>
                /\ ~q.inf /\ q.den > 0
                /\ q.num * r.effective_short_total
                     = q.den * r.effective_long_total
          /\ (r.effective_short_total = 0 /\ r.effective_long_total > 0) =>
                q.inf
          /\ (r.effective_short_total = 0 /\ r.effective_long_total = 0) =>
                ~q.inf /\ q.num = 0 /\ q.den > 0
          /\ positions = <<>> =>
                /\ ~q.inf /\ q.num = 0
                /\ r.raw_long_total = 0 /\ r.raw_short_total = 0
                /\ r.effective_long_total = 0 /\ r.effective_short_total = 0
                /\ r.overall_pnl = 0

\* C1 witness: a non-empty list whose counted positions cancel, so that
\* both effective totals are 0 and the ratio is 0.
C1_Witness ==
    /\ Done
    /\ positions # <<>>
    /\ results[1].symbol_positions.keys # <<>>
    /\ results[1].effective_long_total = 0
    /\ results[1].effective_short_total = 0
    /\ ~results[1].long_short_ratio.inf

\* C2: the positions of a symbol add up to one net notional, and the sign
\* of that net decides the bucket: the raw long total is the sum of the
\* positive nets, the raw short total the sum of the magnitudes of the
\* negative nets.  Long +100 and short -40 on one non-BTC symbol give net
\* 60, raw long total 60 and raw short total 0.
C2_NetSignDecidesBucket ==
    Done =>
      LET r    == results[1]
          net  == [s \in Symbols |-> NetOf(exchange_name, positions, s)]
      IN  /\ \A s \in KeySet(r.symbol_positions) :
                DictGet(r.symbol_positions, s) = net[s]
          /\ r.raw_long_total =
                SetSum(net, {s \in Symbols : net[s] > 0})
          /\ r.raw_short_total =
                SetSum([s \in Symbols |-> -net[s]],
                       {s \in Symbols : net[s] < 0})
          /\ ( /\ Len(positions) = 2
               /\ positions[1].symbol = positions[2].symbol
               /\ positions[1].symbol \notin ExcludedNames
               /\ ~IsBtc(positions[1].symbol)
               /\ positions[1].side = "long"
               /\ positions[1].notional = Some(100)
               /\ positions[2].side = "short"
               /\ positions[2].notional = Some(-40)
               /\ \/ exchange_name # "bybit"
                  \/ /\ positions[1].unrealizedPnl = None
                     /\ positions[2].unrealizedPnl = None )
             => /\ DictGet(r.symbol_positions, positions[1].symbol) = 60
                /\ r.raw_long_total = 60
                /\ r.raw_short_total = 0

\* C2 witness: a long and a short position on one symbol whose net is
\* positive although one of them is short.
C2_Witness ==
    /\ Done
    /\ Len(positions) = 2
    /\ positions[1].symbol = "ETH/USDT:USDT"
    /\ positions[2].symbol = "ETH/USDT:USDT"
    /\ positions[1].side = "long" /\ positions[1].notional = Some(100)
    /\ positions[2].side = "short" /\ positions[2].notional = Some(-40)
    /\ results[1].raw_long_total = 60
    /\ results[1].raw_short_total = 0

\* a list holding one long position of notional N > 0 on a symbol that is
\* not excluded
SingleLong ==
    /\ Len(positions) = 1
    /\ positions[1].side = "long"
    /\ positions[1].notional # None
    /\ positions[1].notional[1] > 0
    /\ positions[1].symbol \notin ExcludedNames

\* C3 as stated: for a single long position of notional N > 0, on every
\* exchange and for every unrealized PnL, raw_long_total = N,
\* raw_short_total = 0 and the ratio is the infinite sentinel.
C3_Original ==
    (Done /\ SingleLong) =>
      /\ results[1].raw_long_total = positions[1].notional[1]
      /\ results[1].raw_short_total = 0
      /\ results[1].long_short_ratio.inf

\* C3 as amended: on binance and bitget the statement holds for every PnL;
\* on bybit the position counts with E = N + PnL in place of N: when E > 0,
\* raw_long_total = E, raw_short_total = 0 and the ratio is infinite; when
\* E < 0 the position falls into the short bucket with magnitude -E and the
\* ratio is 0; when E = 0 all totals and the ratio are 0.
C3_SingleLongPosition ==
    (Done /\ SingleLong) =>
      LET r == results[1]
          N == positions[1].notional[1]
          E == IF exchange_name = "bybit" THEN N + PnlOf(positions[1]) ELSE N
      IN  /\ exchange_name # "bybit" => E = N
          /\ E > 0 => /\ r.raw_long_total = E
                      /\ r.raw_short_total = 0
                      /\ r.long_short_ratio.inf
          /\ E < 0 => /\ r.raw_long_total = 0
                      /\ r.raw_short_total = -E
                      /\ r.long_short_ratio = Zero
          /\ E = 0 => /\ r.raw_long_total = 0
                      /\ r.raw_short_total = 0
                      /\ r.long_short_ratio = Zero

\* C3 witness: a single long position with a non-zero PnL on bybit, counted
\* with N + PnL.
C3_Witness ==
    /\ Done /\ SingleLong
    /\ exchange_name = "bybit"
    /\ positions[1].unrealizedPnl = Some(-150)
    /\ positions[1].notional = Some(1000)
    /\ results[1].raw_long_total = 850
    /\ results[1].long_short_ratio.inf

RECURSIVE SelectNotExcluded(_, _)
SelectNotExcluded(poss, i) ==
    IF i > Len(poss) THEN <<>>
    ELSE IF poss[i].symbol \in ExcludedNames
         THEN SelectNotExcluded(poss, i + 1)
         ELSE <<poss[i]>> \o SelectNotExcluded(poss, i + 1)

\* C4: positions on an excluded symbol never affect the summary: every
\* field equals the one computed from the list without them, and no
\* excluded symbol is a key of either per-symbol map.
C4_ExcludedSymbolsIgnored ==
    Done =>
      /\ results[1] =
            calculate_long_short_ratio(exchange_name,
                                       SelectNotExcluded(positions, 1))
      /\ KeySet(results[1].symbol_positions) \cap ExcludedNames = {}
      /\ KeySet(results[1].symbol_pnl) \cap ExcludedNames = {}
      /\ (\A k \in 1..Len(positions) :
              positions[k].symbol \in ExcludedNames)
           => /\ results[1].raw_long_total = 0
              /\ results[1].raw_short_total = 0
              /\ results[1].effective_long_total = 0
              /\ results[1].effective_short_total = 0
              /\ results[1].overall_pnl = 0
              /\ results[1].long_short_ratio = Zero

\* C4 witness: a list with an excluded position that would otherwise count
\* (side and notional given) next to a counted one.
C4_Witness ==
    /\ Done
    /\ \E k \in 1..Len(positions) :
          /\ positions[k].symbol \in ExcludedNames
          /\ positions[k].notional # None
          /\ positions[k].unrealizedPnl # None
    /\ \E k \in 1..Len(positions) : Counted(positions[k])

\* C5: every symbol adds the magnitude of its net notional to the raw total
\* of its side and that magnitude times its weight to the effective total
\* of the same side; the weight is 0.5 exactly for symbols starting with
\* "BTC".  The effective totals are in halves, so a weight of 0.5 counts
\* once and a weight of 1.0 twice.  A BTC-prefixed symbol with net +1000
\* adds 1000 to the raw and 500 to the effective long total.
C5_WeightedTotals ==
    Done =>
      LET r    == results[1]
          keys == KeySet(r.symbol_positions)
          net  == [s \in keys |-> DictGet(r.symbol_positions, s)]
          mag  == [s \in keys |-> IF net[s] < 0 THEN -net[s] ELSE net[s]]
          eff  == [s \in keys |-> IF IsBtc(s) THEN mag[s] ELSE 2 * mag[s]]
          long  == {s \in keys : net[s] > 0}
          short == {s \in keys : net[s] < 0}
      IN  /\ UniqueKeys(r.symbol_positions)
          /\ r.raw_long_total = SetSum(mag, long)
          /\ r.raw_short_total = SetSum(mag, short)
          /\ r.effective_long_total = SetSum(eff, long)
          /\ r.effective_short_total = SetSum(eff, short)
          /\ \A s \in keys :
                (IsBtc(s) /\ net[s] = 1000 /\ keys = {s}) =>
                   /\ r.raw_long_total = 1000
                   /\ r.effective_long_total = 500 * WeightDen

\* C5 witness: a BTC-prefixed symbol with net +1000 next to a symbol of
\* weight 1.0 on the short side.
C5_Witness ==
    /\ Done
    /\ "BTCUSDT" \in KeySet(results[1].symbol_positions)
    /\ DictGet(results[1].symbol_positions, "BTCUSDT") = 1000
    /\ results[1].raw_long_total = 1000
    /\ results[1].effective_long_total = 1000
    /\ results[1].raw_short_total = 100
    /\ results[1].effective_short_total = 200

\* what C6 requires of the two per-symbol maps, for a given notion of
\* "the positions that must contribute"
AllContribute(must(_)) ==
    LET r   == results[1]
        at(s) == {k \in 1..Len(positions) :
                     must(positions[k]) /\ positions[k].symbol = s}
    IN  /\ UniqueKeys(r.symbol_positions) /\ UniqueKeys(r.symbol_pnl)
        /\ \A s \in Symbols :
              /\ s \in KeySet(r.symbol_positions) <=> at(s) # {}
              /\ s \in KeySet(r.symbol_pnl) <=> at(s) # {}
        /\ \A s \in KeySet(r.symbol_positions) \cap KeySet(r.symbol_pnl) :
              /\ DictGet(r.symbol_positions, s) =
                    SetSum([k \in 1..Len(positions) |->
                               IF positions[k].side \in {"long", "short"}
                               THEN SignedNotional(exchange_name, positions[k])
                               ELSE 0], at(s))
              /\ DictGet(r.symbol_pnl, s) =
                    SetSum([k \in 1..Len(positions) |-> PnlOf(positions[k])],
                           at(s))

HasNotionalAndSymbol(p) ==
    p.notional # None /\ p.symbol \notin ExcludedNames

\* C6 as stated: every position with a non-null notional and a symbol that
\* is not excluded contributes to the notional and the PnL accumulator of
\* its own symbol, and to no other; none is dropped.
C6_Original == Done => AllContribute(HasNotionalAndSymbol)

\* C6 as amended: the same for every position with a non-null notional, a
\* symbol that is not excluded and a side that is long or short; a position
\* of any other side is skipped.
C6_EveryCountedPositionContributes == Done => AllContribute(Counted)

\* C6 witness: two counted positions on one symbol and a per-symbol
\* accumulator that holds both.
C6_Witness ==
    /\ Done
    /\ Len(positions) = 2
    /\ Counted(positions[1]) /\ Counted(positions[2])
    /\ positions[1].symbol = positions[2].symbol
    /\ positions[1].unrealizedPnl = Some(-150)
    /\ positions[2].unrealizedPnl = Some(-150)
    /\ DictGet(results[1].symbol_pnl, positions[1].symbol) = -300

----------------------------------------------------------------------------
(* Specification of the notifier: one call of send_telegram_message *)

InitTelegram ==
    /\ tg_pc = "start" /\ tg_attempts = <<>> /\ tg_slept = <<>>
    /\ CalcIdle /\ AdapterIdle /\ RunIdle /\ ReportIdle

NextTelegram == TgFirstAttempt \/ TgSleep \/ TgRetry

SpecTelegram == InitTelegram /\ [][NextTelegram]_vars

\* a rate-limit response carrying a positive retry delay
RateLimited(response) ==
    /\ ~response.raised
    /\ response.body.json
    /\ ~response.body.ok
    /\ response.body.error_code = Some(429)
    /\ response.body.retry_after # None
    /\ response.body.retry_after[1] > 0

\* C7: there is a second attempt exactly when the first attempt got a
\* rate-limit response (error code 429) with a positive retry delay, the
\* function sleeps that many seconds before it, and there are never more
\* than two attempts.
C7_RetryExactlyOnRateLimit ==
    /\ Len(tg_attempts) <= 2
    /\ tg_pc = "done" =>
          (Len(tg_attempts) = 2 <=> RateLimited(tg_attempts[1]))
    /\ Len(tg_attempts) = 2 =>
          tg_slept = <<tg_attempts[1].body.retry_after[1]>>
    /\ Len(tg_attempts) < 2 => (tg_slept = <<>> \/ tg_pc = "retry")

----------------------------------------------------------------------------
(* Specification of the adapter: a calculator of any configured exchange   *)
(* performs one adapter operation on whatever the exchange answers.        *)

InitAdapter ==
    /\ exchange_name \in ExchangeNames
    /\ positions = <<>> /\ results = None
    /\ adapter_call = None
    /\ NotifierIdle /\ RunIdle /\ ReportIdle

FetchPositions ==
    /\ adapter_call = None
    /\ \E call \in PositionCalls :
          adapter_call' = Some([op |-> "fetch_positions", input |-> call,
                                outcome |-> fetch_positions(call)])
    /\ UNCHANGED <<exchange_name, positions, results, tg_pc, tg_attempts,
                   tg_slept, run_i, run_log, report>>

FetchAccountBalance ==
    /\ adapter_call = None
    /\ \E call \in BalanceCalls :
          adapter_call' =
             Some([op |-> "fetch_account_balance", input |-> call,
                   outcome |-> fetch_account_balance(exchange_name, call)])
    /\ UNCHANGED <<exchange_name, positions, results, tg_pc, tg_attempts,
                   tg_slept, run_i, run_log, report>>

NextAdapter == FetchPositions \/ FetchAccountBalance

SpecAdapter == InitAdapter /\ [][NextAdapter]_vars

\* the shape of balance['info'] each exchange branch expects
ExpectedKind(ex) ==
    IF ex = "binance" THEN "flat"
    ELSE IF ex = "bybit" THEN "unified" ELSE "assets"

\* the index of the first USDT entry of an asset list, 0 when there is none
FirstUsdt(assets) ==
    LET hits == {k \in 1..Len(assets) :
                    assets[k].isdict /\ assets[k].marginCoin = "USDT"}
    IN  IF hits = {} THEN 0
        ELSE CHOOSE k \in hits : \A j \in hits : k <= j

\* A balance payload is malformed for an exchange when its info has not the
\* shape the exchange's extraction expects, or when a part the extraction
\* reads is broken: a field that is no number, an empty account list, an
\* asset entry that is no dict at or before the USDT entry.
MalformedBalance(ex, info) ==
    \/ info.kind # ExpectedKind(ex)
    \/ /\ info.kind = "flat"
       /\ Junk \in {info.totalWalletBalance, info.totalUnrealizedProfit,
                    info.totalMarginBalance}
    \/ /\ info.kind = "unified"
       /\ \/ info.list = <<>>
          \/ Junk \in {info.list[1].totalWalletBalance,
                       info.list[1].totalPerpUPL, info.list[1].totalEquity}
    \/ /\ info.kind = "assets"
       /\ LET u    == FirstUsdt(info.list)
              last == IF u = 0 THEN Len(info.list) ELSE u
          IN  \/ \E k \in 1..last : ~info.list[k].isdict
              \/ /\ u # 0
                 /\ Junk \in {info.list[u].available, info.list[u].locked,
                              info.list[u].unrealizedPL,
                              info.list[u].accountEquity}

MalformedPositions(raw) == \E k \in 1..Len(raw) : raw[k].contracts = None

\* C10: the adapter operations never raise.  When the exchange call fails
\* or answers a malformed payload, fetch_account_balance returns the
\* balance with all three amounts 0 and fetch_positions the empty list; on
\* success fetch_positions returns exactly the positions with a contract
\* size greater than 0, in their order.
C10_AdapterNeverRaises ==
    adapter_call # None =>
      LET c == adapter_call[1]
      IN  /\ ~c.outcome.raised
          /\ c.op = "fetch_account_balance" =>
                ((c.input.raised \/ MalformedBalance(exchange_name,
                                                     c.input.value))
                    => c.outcome.value = ZeroBalance)
          /\ c.op = "fetch_positions" =>
                IF c.input.raised \/ MalformedPositions(c.input.value)
                THEN c.outcome.value = <<>>
                ELSE /\ c.outcome.value =
                          SelectSeq(c.input.value,
                                    LAMBDA q : q.contracts[1] > 0)
                     /\ \A k \in 1..Len(c.outcome.value) :
                           c.outcome.value[k].contracts[1] > 0

\* C10 witness: a binance balance whose wallet total is a number and whose
\* PnL total is no number comes back as the zero balance.
C10_Witness ==
    /\ adapter_call # None
    /\ exchange_name = "binance"
    /\ adapter_call[1].op = "fetch_account_balance"
    /\ ~adapter_call[1].input.raised
    /\ adapter_call[1].input.value.kind = "flat"
    /\ adapter_call[1].input.value.totalWalletBalance = Num(7)
    /\ adapter_call[1].input.value.totalUnrealizedProfit = Junk
    /\ adapter_call[1].outcome = Return(ZeroBalance)

----------------------------------------------------------------------------
(* Specification of the hourly pass: run_both_exchanges, one loop          *)
(* iteration per step.                                                     *)

InitRun ==
    /\ run_i = 0 /\ run_log = <<>>
    /\ CalcIdle /\ NotifierIdle /\ AdapterIdle /\ ReportIdle

\* for i, exchange in enumerate(exchanges): the loop body, then the sleep
\* between exchanges.  An error that leaves the loop body ends the pass.
RunExchange ==
    /\ run_i < Len(Exchanges)
    /\ IF run_log = <<>> THEN TRUE ELSE ~run_log[Len(run_log)].raised
    /\ \E env \in RunEnvironments :
          LET done == RunIteration(Exchanges[run_i + 1], env)
          IN  run_log' =
                 Append(run_log,
                        done @@ [exchange |-> Exchanges[run_i + 1],
                                 delay |-> IF ~done.raised
                                              /\ run_i < Len(Exchanges) - 1
                                           THEN InterExchangeDelay ELSE 0])
    /\ run_i' = run_i + 1
    /\ UNCHANGED <<exchange_name, positions, results, tg_pc, tg_attempts,
                   tg_slept, adapter_call, report>>

NextRun == RunExchange

SpecRun == InitRun /\ [][NextRun]_vars

\* C8: an unexpected error while constructing, running or reporting one
\* exchange is caught for that exchange, an error message for that exchange
\* goes to the notifier, and the exchanges after it in the order binance,
\* bybit, bitget are still processed.
C8_ErrorsCaughtPerExchange ==
    /\ run_i = Len(run_log)
    /\ \A k \in 1..Len(run_log) :
          /\ run_log[k].exchange = <<"binance", "bybit", "bitget">>[k]
          /\ ~run_log[k].raised
          /\ run_log[k].error # "none" =>
                /\ run_log[k].sent # <<>>
                /\ run_log[k].sent[Len(run_log[k].sent)].message.kind = "error"
                /\ run_log[k].sent[Len(run_log[k].sent)].message.exchange
                      = run_log[k].exchange
    /\ Len(run_log) < 3 => ENABLED RunExchange

\* C8 witness: a pass in which the first exchange failed in its
\* constructor and the second while reporting, and the third was reported.
C8_Witness ==
    /\ Len(run_log) = 3
    /\ run_log[1].error = "construct"
    /\ run_log[2].error = "format"
    /\ run_log[3].error = "none"
    /\ run_log[3].sent # <<>>
    /\ run_log[3].sent[1].message.kind = "report"
    /\ run_log[3].sent[1].message.exchange = "bitget"

\* C9 as stated: in every pass exactly one notifier send is started for
\* each exchange, whatever the adapter returned.
C9_Original ==
    \A k \in 1..Len(run_log) : Len(run_log[k].sent) = 1

\* C9 as amended: at most one notifier send is started for each exchange:
\* the error message when an unexpected error occurred, the report when the
\* adapter returned a non-empty position list, and none when it returned
\* the empty list (run returns None and the pass only logs a warning).
C9_OneSendUnlessNoPositions ==
    \A k \in 1..Len(run_log) :
       LET e == run_log[k]
       IN  /\ Len(e.sent) <= 1
           /\ e.error # "none" =>
                 /\ Len(e.sent) = 1
                 /\ e.sent[1].message = ErrorMessage(Exchanges[k])
           /\ (e.error = "none" /\ e.fetched # Some(<<>>)) =>
                 /\ Len(e.sent) = 1
                 /\ e.sent[1].message.kind = "report"
                 /\ e.sent[1].message.exchange = Exchanges[k]
           /\ (e.error = "none" /\ e.fetched = Some(<<>>)) =>
                 e.sent = <<>>

\* C9 witness: a pass with a report, an error message and an exchange
\* without positions, for which nothing is sent.
C9_Witness ==
    /\ Len(run_log) = 3
    /\ Len(run_log[1].sent) = 1
    /\ run_log[1].sent[1].message.kind = "report"
    /\ Len(run_log[2].sent) = 1
    /\ run_log[2].sent[1].message.kind = "error"
    /\ run_log[3].fetched = Some(<<>>)
    /\ run_log[3].sent = <<>>

----------------------------------------------------------------------------
(* Claims about repeated calls, checked under SpecRepeated *)

----------------------------------------------------------------------------
(* Claims about the per-symbol breakdown, checked under SpecReport *)

\* the display name of section 4.3: a trailing settlement suffix is dropped
Displayed(s) ==
    IF Len(s) >= 5 /\ SubSeq(s, Len(s) - 4, Len(s)) \in {":USDT", ":USDC"}
    THEN SubSeq(s, 1, Len(s) - 5)
    ELSE s

LongHeadings == {"LONG POSITIONS:", "*Long Positions:*"}

ShortHeadings == {"SHORT POSITIONS:", "*Short Positions:*"}

\* the rows a rendering lists under one of the headings
SectionRows(rendering, headings) ==
    IF \E j \in 1..Len(rendering) : rendering[j].heading \in headings
    THEN rendering[CHOOSE j \in 1..Len(rendering) :
                       rendering[j].heading \in headings].rows
    ELSE <<>>

SymbolsOf(rows) == [k \in 1..Len(rows) |-> rows[k].symbol]

\* the long section comes before the short one
LongBeforeShort(rendering) ==
    \A i, j \in 1..Len(rendering) :
        (rendering[i].heading \in LongHeadings
           /\ rendering[j].heading \in ShortHeadings) => i < j

\* the rows are the symbols of the set, one row each, with the magnitude of
\* the symbol's net notional, in descending order of it
ListsDescending(rows, symbols, summary) ==
    /\ Len(rows) = Cardinality(symbols)
    /\ {rows[k].symbol : k \in 1..Len(rows)}
           = {Displayed(s) : s \in symbols}
    /\ \A k \in 1..Len(rows) :
           \E s \in symbols :
               /\ rows[k].symbol = Displayed(s)
               /\ rows[k].amount
                      = Abs(DictGet(summary.symbol_positions, s))
    /\ \A k \in 1..(Len(rows) - 1) : rows[k].amount >= rows[k + 1].amount

\* a rendering lists the symbols of long under the long heading and those
\* of short under the short heading
RendersBySign(rendering, long, short, summary) ==
    /\ LongBeforeShort(rendering)
    /\ ListsDescending(SectionRows(rendering, LongHeadings), long, summary)
    /\ ListsDescending(SectionRows(rendering, ShortHeadings), short, summary)

SameListing(console, telegram) ==
    /\ Len(console) = Len(telegram)
    /\ \A h \in {LongHeadings, ShortHeadings} :
           SymbolsOf(SectionRows(console, h))
               = SymbolsOf(SectionRows(telegram, h))

\* C12: in the console report and in the chat message the long heading
\* lists the symbols of positive net notional in descending order of
\* notional, the short heading after it lists the symbols of negative net
\* notional in descending order of magnitude, and the two renderings list
\* the same symbols in the same sections and order.
C12_BreakdownBySign ==
    (report.console # None /\ report.telegram # None) =>
        LET summary == results[1]
            Net(s)  == DictGet(summary.symbol_positions, s)
            long    == {s \in KeySet(summary.symbol_positions) : Net(s) > 0}
            short   == {s \in KeySet(summary.symbol_positions) : Net(s) < 0}
        IN  /\ RendersBySign(report.console[1], long, short, summary)
            /\ RendersBySign(report.telegram[1], long, short, summary)
            /\ SameListing(report.console[1], report.telegram[1])

====
